---- MODULE Spec2Model ----
(***************************************************************************)
(* A model of Nimbus (src/nimbus.py): start-up, plugin loading, the poll   *)
(* loop, the worker pool that runs plugin reactions and the completion     *)
(* callback that reports their errors.                                     *)
(*                                                                         *)
(* The poll loop is one thread (variable pc is its position); the workers  *)
(* of the ThreadPoolExecutor are the Worker* actions.  A dict is a TLA+    *)
(* function whose DOMAIN is the set of keys present, so that a missing key *)
(* (an event without 'channel') is different from any value.  Text is a    *)
(* sequence of one-character strings.                                      *)
(***************************************************************************)
EXTENDS Integers, Sequences, FiniteSets, TLC

(***************************************************************************)
(* Bounds of the exploration.                                              *)
(***************************************************************************)
MaxClasses == 3      \* plugin classes in the plugin directory (LoadSpec)
MaxWorkers == 1      \* largest configured future_workers explored
MaxPolls == 2        \* rtm_read calls explored
MaxBatch == 2        \* events in one rtm_read batch
MaxFutures == 2      \* invocations submitted in one run

(***************************************************************************)
(* Program constants: the defaults of Nimbus.__init__.                     *)
(***************************************************************************)
DefaultFutureWorkers == 15
DefaultUsername == "nimbus"
DefaultIconEmoji == "cloud"
DefaultCommandPrefix == <<"!">>

VARIABLES
    pc,             \* position of the main thread
    argv,           \* sys.argv[1:]
    config_file,    \* the YAML file: whether it can be opened, and its mapping
    plugin_dir,     \* the file system at plugin_directory: missing, a plain file,
                    \* or a directory whose modules define a sequence of classes
    bot,            \* the fields of the Nimbus instance set by __init__
    plugins,        \* self.plugins
    classes,        \* load_plugins: the classes not yet registered
    num_plugins,    \* load_plugins: the local counter
    log,            \* the log entries written, in order
    polls,          \* number of rtm_read calls made
    events,         \* run: the events of the batch not yet visited
    dropped,        \* run: how many events the filter has dropped in the for loop so far
    frame,          \* process_event: the event, the plugins still to invoke,
                    \* and the future and response awaiting add_future_callback
    futures,        \* every future the executor has created, in submission order
    posted,         \* per future, the chat.postMessage calls made for it
    lookup          \* the last call of get_command: its argument and what it returned

vars == <<pc, argv, config_file, plugin_dir, bot, plugins, classes, num_plugins,
          log, polls, events, dropped, frame, futures, posted, lookup>>

startupVars == <<argv, config_file, plugin_dir>>
loopVars == <<polls, events, dropped, frame>>

(***************************************************************************)
(* Dicts.                                                                  *)
(***************************************************************************)
Has(d, k) == k \in DOMAIN d
Get(d, k, default) == IF k \in DOMAIN d THEN d[k] ELSE default
\* dict.update: the keys of u are added or overwritten
Update(d, u) == [k \in (DOMAIN d) \cup (DOMAIN u) |-> IF k \in DOMAIN u THEN u[k] ELSE d[k]]
NoneValue == "None"

(***************************************************************************)
(* The reactions of plugins.  A reaction is what one call of on_event (or  *)
(* on_command) does with its response and how it ends: the keys it sets,   *)
(* whether it posts the response, and the exception it raises; set_event   *)
(* are the keys it sets in the event it was given, and looks_up tells      *)
(* whether it calls bot.get_command with the trigger of the message.       *)
(***************************************************************************)
NoException == [type |-> "None", message |-> ""]
PluginException(m) == [type |-> "PluginException", message |-> m]
OtherException == [type |-> "KeyError", message |-> "text"]

RedirectChannel == "D9"

Silent == [set |-> <<>>, set_event |-> <<>>, looks_up |-> FALSE, post |-> FALSE,
           raises |-> NoException]
\* as Uptime.on_command: set text and mrkdwn_in, post the response
Reply == [set |-> [text |-> "Bot Uptime", mrkdwn_in |-> <<"text">>], set_event |-> <<>>,
          looks_up |-> FALSE, post |-> TRUE, raises |-> NoException]
\* the plugin asks the bot for the command it was called as, notes in its event
\* that it has dealt with it, and replies
ReplyMarked == [set |-> [text |-> "Bot Uptime", mrkdwn_in |-> <<"text">>],
                set_event |-> [handled |-> TRUE], looks_up |-> TRUE, post |-> TRUE,
                raises |-> NoException]
Unexpected == [set |-> <<>>, set_event |-> <<>>, looks_up |-> FALSE, post |-> FALSE,
               raises |-> OtherException]
Refuse(m) == [set |-> <<>>, set_event |-> <<>>, looks_up |-> FALSE, post |-> FALSE,
              raises |-> PluginException(m)]
\* the plugin points its response at another channel before it raises
RedirectAndRefuse(m) == [set |-> [channel |-> RedirectChannel], set_event |-> <<>>,
                         looks_up |-> FALSE, post |-> FALSE, raises |-> PluginException(m)]
NoReaction == Silent

(***************************************************************************)
(* Plugin classes.  Uptime is src/plugins/uptime.py; the others stand for  *)
(* classes a plugin directory may hold.  ctor is what plugin(self) does in *)
(* register_plugin: Uptime.__init__ takes no argument besides self, so     *)
(* calling it with the bot raises TypeError.  reactions are the ways the   *)
(* class's on_event (on_command for a CommandPlugin) may go.               *)
(***************************************************************************)
Uptime == [name |-> "Uptime", kind |-> "CommandPlugin", event_type |-> "message",
           triggers |-> << <<"u","p","t","i","m","e">> >>, ctor |-> "raises",
           reactions |-> {Reply}]
Clock == [name |-> "Clock", kind |-> "CommandPlugin", event_type |-> "message",
          triggers |-> << <<"u","p","t","i","m","e">> >>, ctor |-> "ok",
          reactions |-> {Reply, Refuse("bad arguments")}]
Status == [name |-> "Status", kind |-> "CommandPlugin", event_type |-> "message",
           triggers |-> << <<"u","p">>, <<"u","p","t","i","m","e">> >>, ctor |-> "ok",
           reactions |-> {ReplyMarked, RedirectAndRefuse("no such user")}]
Greeter == [name |-> "Greeter", kind |-> "Plugin", event_type |-> "message",
            triggers |-> <<>>, ctor |-> "ok", reactions |-> {Reply}]
Reactor == [name |-> "Reactor", kind |-> "Plugin", event_type |-> "reaction_added",
            triggers |-> <<>>, ctor |-> "ok",
            reactions |-> {Silent, Unexpected, Refuse("bad arguments")}]
\* a plain Plugin that has an attribute named triggers
Topic == [name |-> "Topic", kind |-> "Plugin", event_type |-> "message",
          triggers |-> << <<"u","p","t","i","m","e">> >>, ctor |-> "ok", reactions |-> {Silent}]
\* a plugin whose on_event never returns: there is no way for its call to end
Sleeper == [name |-> "Sleeper", kind |-> "Plugin", event_type |-> "message",
            triggers |-> <<>>, ctor |-> "ok", reactions |-> {}]
PluginClasses == {Uptime, Clock, Status, Greeter, Reactor, Topic}

RECURSIVE SeqsUpTo(_, _)
SeqsUpTo(S, n) ==
    IF n = 0 THEN {<<>>}
    ELSE LET shorter == SeqsUpTo(S, n - 1)
         IN shorter \cup {Append(s, x) : s \in {t \in shorter : Len(t) = n - 1}, x \in S}

Dir(cs) == [kind |-> "dir", classes |-> cs]
NotADirectory == {[kind |-> "missing", classes |-> <<>>], [kind |-> "file", classes |-> <<>>]}
\* the plugin directories explored by the full specification
Directories == { Dir(<<Uptime, Clock, Status, Reactor>>), Dir(<<>>) }
\* plugin directories that hold the plugin that never returns, before and after
\* one that does
HangDirectories == { Dir(<<Uptime, Sleeper, Greeter>>), Dir(<<Greeter, Sleeper>>) }
\* the configuration files explored
Configs == {[x \in {} |-> 0], [token |-> "xoxb"]}
             \cup {[token |-> "xoxb", future_workers |-> n] : n \in 1..MaxWorkers}
ConfigFiles == {[readable |-> FALSE, data |-> <<>>]}
                 \cup {[readable |-> TRUE, data |-> c] : c \in Configs}

(***************************************************************************)
(* Start-up: __main__ and Nimbus.__init__.                                 *)
(***************************************************************************)
Exit(reason) ==
    /\ pc' = "exit"
    /\ log' = Append(log, [level |-> "fatal", msg |-> reason])

\* __main__: the configuration file name must be given
Main ==
    /\ pc = "main"
    /\ IF Len(argv) >= 1
       THEN pc' = "get_config" /\ UNCHANGED log
       ELSE Exit("Please include the name of a configuration file")
    /\ UNCHANGED <<startupVars, lookup, bot, plugins, classes, num_plugins, loopVars, futures, posted>>

\* __init__ up to the token check
get_config ==
    /\ pc = "get_config"
    /\ IF ~config_file.readable
       THEN Exit("Couldn't open configuration file") /\ UNCHANGED bot
       ELSE /\ LET config == config_file.data IN
                bot' = [username |-> Get(config, "username", DefaultUsername),
                        icon_emoji |-> <<":", Get(config, "icon_emoji", DefaultIconEmoji), ":">>,
                        command_prefix |-> Get(config, "command_prefix", DefaultCommandPrefix),
                        max_workers |-> Get(config, "future_workers", DefaultFutureWorkers),
                        token |-> Get(config, "token", NoneValue),
                        connected |-> FALSE]
            /\ IF ~Has(config_file.data, "token")
               THEN Exit("Need an authorization token.")
               ELSE pc' = "rtm_connect" /\ UNCHANGED log
    /\ UNCHANGED <<startupVars, lookup, plugins, classes, num_plugins, loopVars, futures, posted>>

\* a start-up that does not look at what rtm_connect returns
rtm_connect_unchecked ==
    /\ pc = "rtm_connect"
    /\ \E ok \in BOOLEAN :
        /\ bot' = [bot EXCEPT !.connected = ok]
        /\ pc' = "plugin_directory"
        /\ UNCHANGED log
    /\ UNCHANGED <<startupVars, lookup, plugins, classes, num_plugins, loopVars, futures, posted>>

\* self.sc.rtm_connect(): the chat service accepts the session or not
rtm_connect ==
    /\ pc = "rtm_connect"
    /\ \E ok \in BOOLEAN :
        IF ok
        THEN /\ bot' = [bot EXCEPT !.connected = TRUE]
             /\ pc' = "plugin_directory"
             /\ UNCHANGED log
        ELSE Exit("Can't connect to Slack.") /\ UNCHANGED bot
    /\ UNCHANGED <<startupVars, lookup, plugins, classes, num_plugins, loopVars, futures, posted>>

\* the isdir / exists checks; on success load_plugins begins with os.listdir
check_plugin_directory ==
    /\ pc = "plugin_directory"
    /\ IF plugin_dir.kind # "dir"
       THEN Exit("The specified plugin directory is not a directory!") /\ UNCHANGED classes
       ELSE /\ pc' = "load_plugins"
            /\ classes' = plugin_dir.classes
            /\ UNCHANGED log
    /\ UNCHANGED <<startupVars, lookup, bot, plugins, num_plugins, loopVars, futures, posted>>

\* plugin(self): the instance, when the constructor returns; instance tells the
\* objects of one class apart: it is the number of plugins constructed, this one
\* included
Construct(klass) ==
    [class |-> klass.name, kind |-> klass.kind, event_type |-> klass.event_type,
     triggers |-> klass.triggers, reactions |-> klass.reactions,
     instance |-> Len(plugins) + 1]

ConstructorRaises(klass) == klass.ctor = "raises"

\* a loader that gives up at the first constructor that raises
register_plugin_aborts ==
    /\ pc = "load_plugins"
    /\ classes # <<>>
    /\ LET klass == Head(classes) IN
        IF ConstructorRaises(klass)
        THEN /\ log' = Append(log, [level |-> "error", msg |-> "Error loading plugin", class |-> klass.name])
             /\ classes' = <<>>
             /\ UNCHANGED <<plugins, num_plugins>>
        ELSE /\ plugins' = Append(plugins, Construct(klass))
             /\ log' = Append(log, [level |-> "info", msg |-> "Successfully loaded plugin", class |-> klass.name])
             /\ num_plugins' = num_plugins + 1
             /\ classes' = Tail(classes)
    /\ UNCHANGED <<pc, startupVars, lookup, bot, loopVars, futures, posted>>

\* one iteration of "for name, klass in classes": register_plugin and the count
register_plugin ==
    /\ pc = "load_plugins"
    /\ classes # <<>>
    /\ LET klass == Head(classes) IN
        IF ConstructorRaises(klass)
        THEN /\ log' = Append(log, [level |-> "error", msg |-> "Error loading plugin", class |-> klass.name])
             /\ UNCHANGED <<plugins, num_plugins>>
        ELSE /\ plugins' = Append(plugins, Construct(klass))
             /\ log' = Append(log, [level |-> "info", msg |-> "Successfully loaded plugin", class |-> klass.name])
             /\ num_plugins' = num_plugins + 1
    /\ classes' = Tail(classes)
    /\ UNCHANGED <<pc, startupVars, lookup, bot, loopVars, futures, posted>>

\* the end of load_plugins and of __init__; run() starts
load_plugins_done ==
    /\ pc = "load_plugins"
    /\ classes = <<>>
    /\ log' = Append(log, [level |-> "info", msg |-> "Loaded plugins", count |-> num_plugins])
    /\ pc' = "rtm_read"
    /\ UNCHANGED <<startupVars, lookup, bot, plugins, classes, num_plugins, loopVars, futures, posted>>

StartupNext ==
    \/ Main
    \/ get_config
    \/ rtm_connect
    \/ check_plugin_directory
    \/ register_plugin
    \/ load_plugins_done

(***************************************************************************)
(* Events, as rtm_read returns them.                                       *)
(***************************************************************************)
EventPool == {
    [type |-> "message", channel |-> "C1", text |-> <<"!","u","p","t","i","m","e">>],
    [type |-> "message", text |-> <<"!","u","p"," ","1">>],
    [type |-> "message", channel |-> "C2", subtype |-> "me_message", hidden |-> FALSE,
     text |-> <<"!","U","p","t","i","m","e">>],
    [type |-> "message", channel |-> "C1", subtype |-> "bot_message",
     text |-> <<"!","u","p","t","i","m","e">>],
    [type |-> "message", channel |-> "C1", subtype |-> "message_changed", hidden |-> TRUE],
    [type |-> "reaction_added", channel |-> "C1"] }

\* event.get('subtype') == 'bot_message'
IsBotMessage(event) == Get(event, "subtype", NoneValue) = "bot_message"
\* event.get('hidden'), as a truth value
IsHidden(event) == Has(event, "hidden") /\ event["hidden"] = TRUE

\* a filter that forgets the hidden test
Filtered_bot_only(event) == IsBotMessage(event)

\* the two "continue" tests of run
Filtered(event) == IsBotMessage(event) \/ IsHidden(event)

\* a test that looks at the plugin alone
EventTypeMatches_any_message(plugin, event) == plugin.event_type = "message"

\* the test of the filter in process_event
EventTypeMatches(plugin, event) == plugin.event_type = event["type"]

\* a filter that stops at the first match
FilterFrom_first_match(ps, event, from) ==
    LET matching == {i \in from..Len(ps) : ps[i].event_type = event["type"]}
    IN IF matching = {} THEN <<>>
       ELSE <<CHOOSE i \in matching : \A j \in matching : i <= j>>

RECURSIVE FilterFrom(_, _, _)
\* the indices i >= from of the plugins ps that match the event, in order
FilterFrom(ps, event, from) ==
    IF from > Len(ps) THEN <<>>
    ELSE IF EventTypeMatches(ps[from], event)
         THEN <<from>> \o FilterFrom(ps, event, from + 1)
         ELSE FilterFrom(ps, event, from + 1)

\* a filter that leaves out a plugin whose earlier invocation has not finished
MatchingPlugins_skips_busy(ps, event) ==
    SelectSeq(FilterFrom(ps, event, 1),
              LAMBDA k : \A i \in DOMAIN futures :
                            futures[i].plugin = k => futures[i].state = "FINISHED")

\* filter(lambda p: p.event_type == event['type'], self.plugins), as indices
MatchingPlugins(ps, event) == FilterFrom(ps, event, 1)

\* a draft whose channel is event.get('channel'), present or not
NewResponse_channel_always(event) ==
    [username |-> bot.username, icon_emoji |-> bot.icon_emoji,
     channel |-> Get(event, "channel", NoneValue)]

\* response = dict(username=..., icon_emoji=...), plus the channel if the event has one
NewResponse(event) ==
    LET base == [username |-> bot.username, icon_emoji |-> bot.icon_emoji]
    IN IF Has(event, "channel") THEN Update(base, [channel |-> event["channel"]]) ELSE base

(***************************************************************************)
(* Futures of the ThreadPoolExecutor.                                      *)
(***************************************************************************)
\* The identity of a dict object: the place that made it and which of the objects
\* made there it is.  Two names are the same object when their identities are equal.
\* an event of the list rtm_read returned: n is the number of events after it
RtmEvent(poll, n) == [site |-> "rtm_read", poll |-> poll, n |-> n]
\* response = dict(username=..., icon_emoji=...): a new dict in every iteration
ResponseId(i) == [site |-> "process_event: response", poll |-> 0, n |-> i]

\* an argument that is the event itself
dict_copy_omitted(event, i) == [id |-> frame.event_id, value |-> event]

\* dict(event): a new dict with the items of the event
dict_copy(event, i) == [id |-> [site |-> "process_event: dict(event)", poll |-> 0, n |-> i],
                        value |-> event]

\* executor.submit(plugin.on_event, dict(event), response): event is the event the
\* invocation is for, event_arg and response the two arguments of the call, checks
\* the number of times post_error_response has been called with the future
NewFuture(p, event, response) ==
    [plugin |-> p, event |-> event, event_arg |-> dict_copy(event, Len(futures) + 1),
     response |-> response, response_id |-> ResponseId(Len(futures) + 1),
     state |-> "PENDING", thread |-> "none", exception |-> NoException,
     on_command |-> FALSE, callback |-> "none", callback_thread |-> "none", checks |-> 0]

\* what every holder of the two arguments of invocation i sees once the plugin has
\* set the keys of r in them
Mutate(fs, i, r) ==
    [j \in DOMAIN fs |->
        [fs[j] EXCEPT !.response = IF fs[j].response_id = fs[i].response_id
                                   THEN Update(@, r.set) ELSE @,
                      !.event_arg.value = IF fs[j].event_arg.id = fs[i].event_arg.id
                                          THEN Update(@, r.set_event) ELSE @]]

\* the free variables plugin and response of post_error_response: the arguments of
\* the add_future_callback call that made it, which are those of the submit before it
Closure(i) == [plugin |-> futures[i].plugin, response_id |-> futures[i].response_id]

\* the dict with the given identity, as the invocations holding it see it
Draft(fs, id) == fs[CHOOSE j \in DOMAIN fs : fs[j].response_id = id].response
\* response.update(u) on the dict with the given identity
UpdateDraft(fs, id, u) ==
    [j \in DOMAIN fs |-> IF fs[j].response_id = id
                         THEN [fs[j] EXCEPT !.response = Update(@, u)] ELSE fs[j]]

\* a worker thread is busy while it runs the call and while it invokes the callbacks
Busy(f) == f.state = "RUNNING" \/ (f.state = "FINISHED" /\ f.callback = "attached")
BusyWorkers == Cardinality({i \in DOMAIN futures : Busy(futures[i])})

\* json.dumps: the JSON text of a value
json_dumps(v) == [json |-> v]
json_loads(s) == s.json

\* the body of post_error_response for future i, run by the given thread: what it
\* does to the response and plugin of its closure, to the messages posted and to
\* the log
ErrorAttachment(plugin, e) ==
    [title |-> <<"Error with plugin '", plugin.class, "'">>,
     text |-> e.message,
     mrkdwn_in |-> <<"text">>,
     color |-> "danger",
     fallback |-> e.message]

\* the keyword arguments of response.update
ErrorResponse(attach) == [attachments |-> json_dumps(<<attach>>)]

\* a callback without the isinstance test: every exception is posted
post_error_response_posts_all(i, thread) ==
    LET e == futures[i].exception
        c == Closure(i)
        ran == [futures EXCEPT ![i].callback = "ran", ![i].callback_thread = thread,
                               ![i].checks = @ + 1]
        updated == UpdateDraft(ran, c.response_id,
                               ErrorResponse(ErrorAttachment(plugins[c.plugin], e)))
    IN IF e = NoException
       THEN /\ futures' = ran
            /\ UNCHANGED <<posted, log>>
       ELSE /\ futures' = updated
            /\ posted' = [posted EXCEPT ![i] = Append(@, [by |-> "post_error_response",
                                                            thread |-> thread,
                                                            args |-> Draft(updated, c.response_id)])]
            /\ UNCHANGED log

\* a callback without the "if e" test: the outcome of every invocation is posted
post_error_response_no_test(i, thread) ==
    LET e == futures[i].exception
        c == Closure(i)
        ran == [futures EXCEPT ![i].callback = "ran", ![i].callback_thread = thread,
                               ![i].checks = @ + 1]
        updated == UpdateDraft(ran, c.response_id,
                               ErrorResponse(ErrorAttachment(plugins[c.plugin], e)))
    IN IF e.type \in {"None", "PluginException"}
       THEN /\ futures' = updated
            /\ posted' = [posted EXCEPT ![i] = Append(@, [by |-> "post_error_response",
                                                            thread |-> thread,
                                                            args |-> Draft(updated, c.response_id)])]
            /\ UNCHANGED log
       ELSE /\ futures' = ran
            /\ log' = Append(log, [level |-> "error", msg |-> "exception", future |-> i])
            /\ UNCHANGED posted

post_error_response(i, thread) ==
    LET e == futures[i].exception
        c == Closure(i)
        ran == [futures EXCEPT ![i].callback = "ran", ![i].callback_thread = thread,
                               ![i].checks = @ + 1]
        updated == UpdateDraft(ran, c.response_id,
                               ErrorResponse(ErrorAttachment(plugins[c.plugin], e)))
    IN IF e = NoException
       THEN /\ futures' = ran
            /\ UNCHANGED <<posted, log>>
       ELSE IF e.type = "PluginException"
       THEN /\ futures' = updated
            /\ posted' = [posted EXCEPT ![i] = Append(@, [by |-> "post_error_response",
                                                            thread |-> thread,
                                                            args |-> Draft(updated, c.response_id)])]
            /\ UNCHANGED log
       ELSE /\ futures' = ran
            /\ log' = Append(log, [level |-> "error", msg |-> "exception", future |-> i])
            /\ UNCHANGED posted

(***************************************************************************)
(* The main loop: run, process_event, add_future_callback.                 *)
(***************************************************************************)
NoFrame == [x \in {} |-> 0]

\* the invocations a batch leads to, used to keep the exploration finite
RECURSIVE Invocations(_)
Invocations(b) ==
    IF b = <<>> THEN 0
    ELSE (IF Filtered(Head(b)) THEN 0 ELSE Len(MatchingPlugins(plugins, Head(b))))
         + Invocations(Tail(b))

\* events = self.sc.rtm_read()
rtm_read ==
    /\ pc = "rtm_read"
    /\ polls < MaxPolls
    /\ \E b \in SeqsUpTo(EventPool, MaxBatch) :
        /\ Len(futures) + Invocations(b) <= MaxFutures
        /\ events' = b
    /\ polls' = polls + 1
    /\ dropped' = 0
    /\ pc' = "for_event"
    /\ UNCHANGED <<startupVars, lookup, bot, plugins, classes, num_plugins, log, frame, futures, posted>>

\* for event in events: an event the filter drops
run_continue ==
    /\ pc = "for_event"
    /\ events # <<>>
    /\ Filtered(Head(events))
    /\ events' = Tail(events)
    /\ dropped' = dropped + 1
    /\ UNCHANGED <<pc, startupVars, lookup, bot, plugins, classes, num_plugins, log, polls,
                   frame, futures, posted>>

\* for event in events: self.process_event(event) is entered
run_process_event ==
    /\ pc = "for_event"
    /\ events # <<>>
    /\ ~Filtered(Head(events))
    /\ events' = Tail(events)
    /\ frame' = [event |-> Head(events),
                 event_id |-> RtmEvent(polls, Len(events)),
                 todo |-> MatchingPlugins(plugins, Head(events)),
                 first |-> Len(futures) + 1, future |-> 0]
    /\ pc' = "process_event"
    /\ UNCHANGED <<startupVars, lookup, bot, plugins, classes, num_plugins, log, polls,
                   dropped, futures, posted>>

\* a loop that waits for the submitted invocations before it sleeps
run_sleep_joins ==
    /\ pc = "for_event"
    /\ events = <<>>
    /\ \A i \in DOMAIN futures : futures[i].state = "FINISHED"
    /\ dropped' = 0
    /\ pc' = "sleep"
    /\ UNCHANGED <<startupVars, lookup, bot, plugins, classes, num_plugins, log, polls, events, frame,
                   futures, posted>>

\* the batch is exhausted: time.sleep(self.polling_interval) begins
run_sleep ==
    /\ pc = "for_event"
    /\ events = <<>>
    /\ dropped' = 0
    /\ pc' = "sleep"
    /\ UNCHANGED <<startupVars, lookup, bot, plugins, classes, num_plugins, log, polls, events, frame,
                   futures, posted>>

\* the sleep ends and the loop polls again
run_wake ==
    /\ pc = "sleep"
    /\ pc' = "rtm_read"
    /\ UNCHANGED <<startupVars, lookup, bot, plugins, classes, num_plugins, log, loopVars, futures, posted>>

\* a loop over the matching plugins that takes them from the end
process_event_submit_reversed ==
    /\ pc = "process_event"
    /\ frame.todo # <<>>
    /\ LET p == frame.todo[Len(frame.todo)]
           response == NewResponse(frame.event)
       IN /\ futures' = Append(futures, NewFuture(p, frame.event, response))
          /\ posted' = Append(posted, <<>>)
          /\ frame' = [frame EXCEPT !.todo = SubSeq(@, 1, Len(@) - 1),
                                    !.future = Len(futures) + 1]
    /\ pc' = "add_future_callback"
    /\ UNCHANGED <<startupVars, lookup, bot, plugins, classes, num_plugins, log, polls, events,
                   dropped>>

\* process_event, one plugin of the filter: build the response and submit
process_event_submit ==
    /\ pc = "process_event"
    /\ frame.todo # <<>>
    /\ LET p == Head(frame.todo)
           response == NewResponse(frame.event)
       IN /\ futures' = Append(futures, NewFuture(p, frame.event, response))
          /\ posted' = Append(posted, <<>>)
          /\ frame' = [frame EXCEPT !.todo = Tail(@), !.future = Len(futures) + 1]
    /\ pc' = "add_future_callback"
    /\ UNCHANGED <<startupVars, lookup, bot, plugins, classes, num_plugins, log, polls, events,
                   dropped>>

\* process_event returns to run
process_event_return ==
    /\ pc = "process_event"
    /\ frame.todo = <<>>
    /\ frame' = NoFrame
    /\ pc' = "for_event"
    /\ UNCHANGED <<startupVars, lookup, bot, plugins, classes, num_plugins, log, polls, events,
                   dropped, futures, posted>>

\* an add_done_callback that only ever appends to the callbacks of the future: the
\* worker has gone through them when the future is finished
add_future_callback_appends ==
    /\ pc = "add_future_callback"
    /\ LET i == frame.future IN
        /\ futures' = [futures EXCEPT ![i].callback = IF futures[i].state = "FINISHED"
                                                       THEN "appended" ELSE "attached"]
        /\ UNCHANGED <<posted, log>>
    /\ frame' = [frame EXCEPT !.future = 0]
    /\ pc' = "process_event"
    /\ UNCHANGED <<startupVars, lookup, bot, plugins, classes, num_plugins, polls, events,
                   dropped>>

\* future.add_done_callback(post_error_response): a future that is already finished
\* has the callback called at once, by the calling thread
add_future_callback ==
    /\ pc = "add_future_callback"
    /\ LET i == frame.future IN
        IF futures[i].state = "FINISHED"
        THEN post_error_response(i, "main")
        ELSE /\ futures' = [futures EXCEPT ![i].callback = "attached"]
             /\ UNCHANGED <<posted, log>>
    /\ frame' = [frame EXCEPT !.future = 0]
    /\ pc' = "process_event"
    /\ UNCHANGED <<startupVars, lookup, bot, plugins, classes, num_plugins, polls, events,
                   dropped>>

(***************************************************************************)
(* CommandPlugin.on_event.  The module plugin (Plugin, CommandPlugin,      *)
(* PluginException) is imported by nimbus.py but is not among the source   *)
(* files; the routing of a message to on_command follows section 4.2 of    *)
(* the specification: the first blank-delimited token of the text, after   *)
(* the command prefix, compared exactly with the plugin's triggers.        *)
(***************************************************************************)
RECURSIVE StartsWith(_, _)
StartsWith(text, prefix) ==
    \/ prefix = <<>>
    \/ /\ text # <<>>
       /\ Head(text) = Head(prefix)
       /\ StartsWith(Tail(text), Tail(prefix))

RECURSIVE FirstToken(_)
\* the characters up to the first blank
FirstToken(text) ==
    IF text = <<>> \/ Head(text) = " " THEN <<>>
    ELSE <<Head(text)>> \o FirstToken(Tail(text))

\* the trigger a message text carries: its first token, without the command prefix
TriggerOf(text) == FirstToken(SubSeq(text, Len(bot.command_prefix) + 1, Len(text)))

InTriggers(plugin, trigger) == \E k \in DOMAIN plugin.triggers : plugin.triggers[k] = trigger

\* CommandPlugin.on_event: on_command is called when the text starts with the
\* command prefix and its trigger is one of the plugin's
IsCommandFor(plugin, event) ==
    /\ plugin.kind = "CommandPlugin"
    /\ Has(event, "text")
    /\ StartsWith(event["text"], bot.command_prefix)
    /\ InTriggers(plugin, TriggerOf(event["text"]))

(***************************************************************************)
(* get_command, which plugins call through the bot they were given.        *)
(***************************************************************************)
\* what a function returns that ends without a return statement
ReturnsNone == 0
NoLookup == [trigger |-> <<>>, returned |-> ReturnsNone]

RECURSIVE scan_triggers(_, _, _)
\* for trig in plugin.triggers: if trigger == trig, from the n-th trigger on
scan_triggers(triggers, trigger, n) ==
    IF n > Len(triggers) THEN FALSE
    ELSE IF trigger = triggers[n] THEN TRUE
    ELSE scan_triggers(triggers, trigger, n + 1)

RECURSIVE get_command_from(_, _)
\* the outer loop of get_command from the k-th plugin on: the position of the
\* plugin it returns
get_command_from(trigger, k) ==
    IF k > Len(plugins) THEN ReturnsNone
    ELSE IF plugins[k].kind = "CommandPlugin" /\ scan_triggers(plugins[k].triggers, trigger, 1)
         THEN k
         ELSE get_command_from(trigger, k + 1)

\* a scan that does not look at the kind of the plugin
get_command_any_kind(trigger) ==
    LET holders == {k \in DOMAIN plugins : scan_triggers(plugins[k].triggers, trigger, 1)}
    IN IF holders = {} THEN ReturnsNone ELSE CHOOSE k \in holders : \A j \in holders : k <= j

get_command(trigger) == get_command_from(trigger, 1)

\* the triggers looked up
LookupTriggers == { <<"u","p","t","i","m","e">>, <<"u","p">>, <<"U","p","t","i","m","e">>,
                    <<"u","p","t">> }

\* a call of bot.get_command(trigger); the bot is handed to every plugin constructor,
\* so the call may come while load_plugins is still going on
get_command_call ==
    /\ pc \in {"load_plugins", "rtm_read"}
    /\ \E trigger \in LookupTriggers :
          lookup' = [trigger |-> trigger, returned |-> get_command(trigger)]
    /\ UNCHANGED <<pc, startupVars, bot, plugins, classes, num_plugins, log, loopVars,
                   futures, posted>>

(***************************************************************************)
(* The worker threads.                                                     *)
(***************************************************************************)
\* a pool that starts a thread for every work item
WorkerStart_unbounded ==
    /\ \E i \in DOMAIN futures :
        /\ futures[i].state = "PENDING"
        /\ \A j \in 1..(i - 1) : futures[j].state # "PENDING"
        /\ futures' = [futures EXCEPT ![i].state = "RUNNING", ![i].thread = "worker"]
    /\ UNCHANGED <<pc, startupVars, lookup, bot, plugins, classes, num_plugins, log, loopVars, posted>>

\* a free worker takes the oldest work item of the queue
WorkerStart ==
    /\ \E i \in DOMAIN futures :
        /\ futures[i].state = "PENDING"
        /\ \A j \in 1..(i - 1) : futures[j].state # "PENDING"
        /\ BusyWorkers < bot.max_workers
        /\ futures' = [futures EXCEPT ![i].state = "RUNNING", ![i].thread = "worker"]
    /\ UNCHANGED <<pc, startupVars, lookup, bot, plugins, classes, num_plugins, log, loopVars, posted>>

\* a pool that an exception shuts down: the work items still queued are cancelled
Finish_raise_shuts_pool(i, r, command) ==
    LET mutated == Mutate(futures, i, r)
        finished == [mutated[i] EXCEPT !.state = "FINISHED", !.exception = r.raises,
                                       !.on_command = command]
    IN /\ futures' = [j \in DOMAIN futures |->
                        IF j = i THEN finished
                        ELSE IF r.raises # NoException /\ futures[j].state = "PENDING"
                             THEN [mutated[j] EXCEPT !.state = "CANCELLED"]
                             ELSE mutated[j]]
       /\ posted' = [posted EXCEPT ![i] =
                        IF r.post THEN Append(@, [by |-> "plugin", thread |-> "worker",
                                                  args |-> mutated[i].response])
                        ELSE @]
       /\ lookup' = IF r.looks_up /\ command
                    THEN LET trigger == TriggerOf(futures[i].event["text"])
                         IN [trigger |-> trigger, returned |-> get_command(trigger)]
                    ELSE lookup

\* plugin.on_event(event, response) runs and returns or raises
Finish(i, r, command) ==
    LET mutated == Mutate(futures, i, r)
    IN /\ futures' = [mutated EXCEPT ![i].state = "FINISHED",
                                     ![i].exception = r.raises,
                                     ![i].on_command = command]
       /\ posted' = [posted EXCEPT ![i] =
                        IF r.post THEN Append(@, [by |-> "plugin", thread |-> "worker",
                                                  args |-> mutated[i].response])
                        ELSE @]
       /\ lookup' = IF r.looks_up /\ command
                    THEN LET trigger == TriggerOf(futures[i].event["text"])
                         IN [trigger |-> trigger, returned |-> get_command(trigger)]
                    ELSE lookup

\* a pool that gives up on a call that does not end: the future is finished with a
\* timeout
WorkerRun_times_out ==
    /\ \E i \in DOMAIN futures :
        /\ futures[i].state = "RUNNING"
        /\ LET plugin == plugins[futures[i].plugin]
               TimedOut == [Silent EXCEPT !.raises = [type |-> "TimeoutError", message |-> ""]]
               ways == IF plugin.reactions = {} THEN {TimedOut} ELSE plugin.reactions
           IN
            IF plugin.kind = "CommandPlugin"
            THEN IF IsCommandFor(plugin, futures[i].event)
                 THEN \E r \in ways : Finish(i, r, TRUE)
                 ELSE Finish(i, NoReaction, FALSE)
            ELSE \E r \in ways : Finish(i, r, FALSE)
    /\ UNCHANGED <<pc, startupVars, bot, plugins, classes, num_plugins, log, loopVars>>

WorkerRun ==
    /\ \E i \in DOMAIN futures :
        /\ futures[i].state = "RUNNING"
        /\ LET plugin == plugins[futures[i].plugin] IN
            IF plugin.kind = "CommandPlugin"
            THEN IF IsCommandFor(plugin, futures[i].event)
                 THEN \E r \in plugin.reactions : Finish(i, r, TRUE)
                 ELSE Finish(i, NoReaction, FALSE)
            ELSE \E r \in plugin.reactions : Finish(i, r, FALSE)
    /\ UNCHANGED <<pc, startupVars, bot, plugins, classes, num_plugins, log, loopVars>>

\* a callback run that replaces the instance of a plugin that failed unexpectedly
WorkerCallback_restarts_plugin ==
    /\ \E i \in DOMAIN futures :
        /\ futures[i].state = "FINISHED"
        /\ futures[i].callback = "attached"
        /\ post_error_response(i, "worker")
        /\ plugins' = IF futures[i].exception.type \in {"None", "PluginException"}
                       THEN plugins
                       ELSE [plugins EXCEPT ![futures[i].plugin].instance = @ + Len(plugins)]
    /\ UNCHANGED <<pc, startupVars, lookup, bot, classes, num_plugins, loopVars>>

\* the worker that finished the call invokes the callback attached before the finish
WorkerCallback ==
    /\ \E i \in DOMAIN futures :
        /\ futures[i].state = "FINISHED"
        /\ futures[i].callback = "attached"
        /\ post_error_response(i, "worker")
    /\ UNCHANGED <<pc, startupVars, lookup, bot, plugins, classes, num_plugins, loopVars>>

\* the steps of the main thread inside run
MainLoop ==
    \/ rtm_read
    \/ run_continue
    \/ run_process_event
    \/ run_sleep
    \/ run_wake
    \/ process_event_submit
    \/ process_event_return
    \/ add_future_callback

Workers ==
    \/ WorkerStart
    \/ WorkerRun
    \/ WorkerCallback

RunNext == MainLoop \/ Workers

Next == StartupNext \/ RunNext

InitCommon ==
    /\ pc = "main"
    /\ argv \in {<<>>, <<"nimbus.yml">>}
    /\ config_file \in ConfigFiles
    /\ bot = [x \in {} |-> 0]
    /\ plugins = <<>>
    /\ classes = <<>>
    /\ num_plugins = 0
    /\ log = <<>>
    /\ polls = 0
    /\ events = <<>>
    /\ dropped = 0
    /\ frame = NoFrame
    /\ futures = <<>>
    /\ posted = <<>>
    /\ lookup = NoLookup

\* start-up alone, over every plugin directory of up to MaxClasses classes
LoadInit ==
    /\ InitCommon
    /\ plugin_dir \in NotADirectory \cup {Dir(cs) : cs \in SeqsUpTo(PluginClasses, MaxClasses)}

LoadSpec == LoadInit /\ [][StartupNext]_vars

\* start-up, with calls of get_command
LookupNext == StartupNext \/ get_command_call
LookupSpec == LoadInit /\ [][LookupNext]_vars

Init ==
    /\ InitCommon
    /\ plugin_dir \in NotADirectory \cup Directories

Spec == Init /\ [][Next]_vars

\* the program with a plugin that never returns in its plugin directory; the main
\* thread and the pool's threads are scheduled, and a reaction that can end does
HangInit ==
    /\ InitCommon
    /\ plugin_dir \in NotADirectory \cup HangDirectories

HangSpec ==
    /\ HangInit /\ [][Next]_vars
    /\ WF_vars(MainLoop)
    /\ WF_vars(WorkerStart)
    /\ WF_vars(WorkerRun)
    /\ WF_vars(WorkerCallback)

\* the main thread keeps running, the pool's threads are scheduled, and a reaction
\* that has started returns or raises
FairSpec ==
    /\ Spec
    /\ WF_vars(MainLoop)
    /\ WF_vars(WorkerStart)
    /\ WF_vars(WorkerRun)
    /\ WF_vars(WorkerCallback)

(***************************************************************************)
(* Properties.                                                             *)
(***************************************************************************)
RunPcs == {"rtm_read", "for_event", "process_event", "add_future_callback", "sleep"}
MainMoves == pc' # pc \/ events' # events \/ frame' # frame

BotOrHidden(event) ==
    \/ ("subtype" \in DOMAIN event /\ event["subtype"] = "bot_message")
    \/ ("hidden" \in DOMAIN event /\ event["hidden"] = TRUE)

\* the futures submitted by the process_event call in progress
FrameFutures == {i \in DOMAIN futures : i >= frame.first}

\* C1: no plugin is ever submitted for an event whose subtype is 'bot_message' or
\* whose 'hidden' is true, and when the loop meets such an event it moves on to
\* the rest of the batch without submitting anything.
C1_FilteredNeverDispatched ==
    [][ /\ \A i \in DOMAIN futures' : ~BotOrHidden(futures'[i].event)
        /\ (pc = "for_event" /\ events # <<>> /\ BotOrHidden(Head(events)) /\ MainMoves)
              => /\ pc' = "for_event"
                 /\ events' = Tail(events)
                 /\ Len(futures') = Len(futures) ]_vars

\* a dropped event was followed, in the same batch, by an event that was dispatched
C1_Witness ==
    /\ pc = "add_future_callback"
    /\ dropped >= 1
    /\ ~BotOrHidden(frame.event)

\* C2: when process_event returns, the invocations it submitted are one for each
\* plugin whose event_type is the event's type, and for no other plugin.
C2_ExactlyMatchingPlugins ==
    /\ \A i \in DOMAIN futures :
          plugins[futures[i].plugin].event_type = futures[i].event["type"]
    /\ (pc = "process_event" /\ frame.todo = <<>>) =>
          /\ \A i \in FrameFutures : futures[i].event = frame.event
          /\ \A k \in DOMAIN plugins :
                Cardinality({i \in FrameFutures : futures[i].plugin = k})
                  = (IF plugins[k].event_type = frame.event["type"] THEN 1 ELSE 0)
          /\ Cardinality(FrameFutures)
               = Cardinality({k \in DOMAIN plugins :
                                plugins[k].event_type = frame.event["type"]})

\* process_event has submitted two invocations for an event, its third plugin not matching
C2_Witness ==
    /\ pc = "process_event"
    /\ frame.todo = <<>>
    /\ Cardinality(FrameFutures) = 2
    /\ Len(plugins) = 3

\* the message text is the prefix "!" and the token t, alone or followed by a blank
CarriesTrigger(event, t) ==
    /\ event["type"] = "message"
    /\ "text" \in DOMAIN event
    /\ LET text == event["text"]
           n == Len(t) + 1
       IN /\ Len(text) >= n
          /\ SubSeq(text, 1, n) = <<"!">> \o t
          /\ Len(text) > n => text[n + 1] = " "

HoldsTrigger(plugin, t) == \E k \in DOMAIN plugin.triggers : plugin.triggers[k] = t

TokenUptime == <<"u","p","t","i","m","e">>
Tokens == {TokenUptime, <<"u","p">>, <<"U","p","t","i","m","e">>}

\* C3: for a message whose text is the prefix followed by a token t ("uptime" among
\* them), the command reaction runs in exactly the invocations of the plugins whose
\* triggers contain t, and every loaded plugin whose triggers contain t is invoked
\* once for the event.
C3_CommandToTriggerHolders ==
    /\ \A i \in DOMAIN futures : \A t \in Tokens :
          (futures[i].state = "FINISHED" /\ CarriesTrigger(futures[i].event, t))
             => (futures[i].on_command <=> HoldsTrigger(plugins[futures[i].plugin], t))
    /\ \A i \in DOMAIN futures :
          (futures[i].on_command => \E t \in Tokens : CarriesTrigger(futures[i].event, t))
    /\ \A t \in Tokens :
          (pc = "process_event" /\ frame.todo = <<>> /\ CarriesTrigger(frame.event, t))
             => \A k \in DOMAIN plugins :
                   HoldsTrigger(plugins[k], t)
                      => Cardinality({i \in FrameFutures : futures[i].plugin = k}) = 1

\* "!uptime" has run the command reaction of both loaded plugins that hold "uptime"
C3_Witness ==
    \E i, j \in DOMAIN futures :
        /\ i # j
        /\ futures[i].event = futures[j].event
        /\ CarriesTrigger(futures[i].event, TokenUptime)
        /\ futures[i].on_command /\ futures[j].on_command
        /\ plugins[futures[i].plugin].class # plugins[futures[j].plugin].class

\* the messages the error-reporting path has posted for future i
ErrorReports(i) == SelectSeq(posted[i], LAMBDA m : m.by = "post_error_response")
ErrorLogs(i) ==
    SelectSeq(log, LAMBDA l : l.level = "error" /\ "future" \in DOMAIN l /\ l["future"] = i)
CallbackRan(i) == futures[i].callback = "ran"

\* the report of a domain error, but for its channel
WellFormedReport(i) ==
    /\ Len(ErrorReports(i)) = 1
    /\ LET args == ErrorReports(i)[1].args
           M == futures[i].exception.message
       IN /\ "attachments" \in DOMAIN args
          /\ Len(json_loads(args["attachments"])) = 1
          /\ LET attach == json_loads(args["attachments"])[1]
             IN /\ attach.text = M
                /\ attach.fallback = M
                /\ attach.color = "danger"
                /\ \E k \in DOMAIN attach.title :
                      attach.title[k] = plugins[futures[i].plugin].class

\* C4: an invocation that raised PluginException(M) has, once its completion check
\* ran, exactly one message posted by the error path, with one attachment whose text
\* and fallback are M, color 'danger', a title naming the plugin's class, and the
\* channel of the originating event when the event has one.
C4_DomainErrorReported ==
    \A i \in DOMAIN futures :
        (futures[i].exception.type = "PluginException" /\ CallbackRan(i))
           => /\ WellFormedReport(i)
              /\ "channel" \in DOMAIN futures[i].event
                    => /\ "channel" \in DOMAIN ErrorReports(i)[1].args
                       /\ ErrorReports(i)[1].args["channel"] = futures[i].event["channel"]

\* C5: an invocation that raised an error other than PluginException never has a
\* message posted by the error path, and has exactly one error log entry once its
\* completion check ran (none before).
C5_UnexpectedErrorLoggedOnly ==
    \A i \in DOMAIN futures :
        futures[i].exception.type \notin {"None", "PluginException"}
           => /\ Len(ErrorReports(i)) = 0
              /\ Len(ErrorLogs(i)) = (IF CallbackRan(i) THEN 1 ELSE 0)

\* the completion check of an invocation that raised KeyError has run
C5_Witness ==
    \E i \in DOMAIN futures :
        /\ futures[i].exception.type = "KeyError"
        /\ CallbackRan(i)
        /\ Len(ErrorLogs(i)) = 1
        /\ posted[i] = <<>>

\* the classes of the directory that load_plugins has already passed to register_plugin
Attempted == Len(plugin_dir.classes) - Len(classes)
ConstructedOf(n) == {k \in 1..n : plugin_dir.classes[k].ctor = "ok"}
LoadEntries == SelectSeq(log, LAMBDA l : "class" \in DOMAIN l)

\* C6: at every point of load_plugins the collection holds exactly the instances of
\* the classes attempted so far whose constructor returned, a class whose
\* constructor raises is not in it, the classes after a failure are still to be
\* attempted, and when loading ends every class was attempted and the collection
\* size and the logged count equal the number of successful constructions.
C6_LoadSkipsFailures ==
    pc \in {"load_plugins", "rtm_read"} =>
        /\ classes = SubSeq(plugin_dir.classes, Attempted + 1, Len(plugin_dir.classes))
        /\ Len(LoadEntries) = Attempted
        /\ Len(plugins) = Cardinality(ConstructedOf(Attempted))
        /\ num_plugins = Len(plugins)
        /\ \A j \in DOMAIN plugins : \A k \in DOMAIN plugin_dir.classes :
              plugin_dir.classes[k].ctor = "raises" => plugins[j].class # plugin_dir.classes[k].name
        /\ pc = "rtm_read" =>
              /\ Attempted = Len(plugin_dir.classes)
              /\ log[Len(log)].msg = "Loaded plugins"
              /\ log[Len(log)].count = Cardinality(ConstructedOf(Len(plugin_dir.classes)))

\* loading ended with a failure between two successes
C6_Witness ==
    /\ pc = "rtm_read"
    /\ Len(plugin_dir.classes) = 3
    /\ plugin_dir.classes[1].ctor = "ok"
    /\ plugin_dir.classes[2].ctor = "raises"
    /\ plugin_dir.classes[3].ctor = "ok"
    /\ Len(plugins) = 2

Failed(f) == f.state = "FINISHED" /\ f.exception.type # "None"
OthersUntouched(i) ==
    \A j \in DOMAIN futures : j # i => (futures'[j] = futures[j] /\ posted'[j] = posted[j])

\* C7: the step in which an invocation fails, and the step in which its failure is
\* reported, change neither the position of the main thread (unless the main thread
\* itself runs the completion check) nor any other invocation; the loop never
\* leaves run; after a failure the main thread reaches its next poll, and every
\* submitted invocation has its completion check run.
C7_ErrorsIsolated ==
    /\ [][ /\ pc \in RunPcs => pc' \in RunPcs
           /\ \A i \in DOMAIN futures :
                 (~Failed(futures[i]) /\ Failed(futures'[i]))
                    => (OthersUntouched(i) /\ pc' = pc /\ UNCHANGED loopVars)
           /\ \A i \in DOMAIN futures :
                 (Failed(futures[i]) /\ ~CallbackRan(i) /\ futures'[i].callback = "ran")
                    => (OthersUntouched(i) /\ pc' \in RunPcs) ]_vars
    /\ (\E i \in DOMAIN futures : Failed(futures[i])) ~> (pc = "rtm_read")
    /\ \A i \in 1..MaxFutures :
          (Len(futures) >= i) ~> (Len(futures) >= i /\ futures[i].callback = "ran")

\* an invocation failed and was reported, a later one returned and was checked, and
\* the loop is at a later poll
C7_Witness ==
    /\ pc = "rtm_read"
    /\ polls >= 2
    /\ \E i, j \in DOMAIN futures :
          /\ i < j
          /\ Failed(futures[i]) /\ CallbackRan(i)
          /\ futures[j].state = "FINISHED" /\ futures[j].exception.type = "None"
          /\ CallbackRan(j)

\* C8: inside run the main thread always has a next step, whatever the states of
\* the futures: nothing in the loop waits for an invocation.
C8_LoopNeverWaits ==
    (pc \in RunPcs /\ (pc = "rtm_read" => polls < MaxPolls)) => ENABLED MainLoop

\* the loop has polled a second time while nothing it submitted has even started
C8_Witness ==
    /\ polls = 2
    /\ pc = "for_event"
    /\ futures # <<>>
    /\ \A i \in DOMAIN futures : futures[i].state = "PENDING"

RunningInvocations == {i \in DOMAIN futures : futures[i].state = "RUNNING"}
StateSuccessors(state) ==
    IF state = "PENDING" THEN {"PENDING", "RUNNING"}
    ELSE IF state = "RUNNING" THEN {"RUNNING", "FINISHED"}
    ELSE {"FINISHED"}

\* C9: the pool size is the configured future_workers, 15 when the key is absent;
\* at most that many invocations run at once; an invocation that is submitted stays
\* among the futures, waits as PENDING until a worker takes it, and is only ever
\* run by a worker thread.
C9_BoundedPool ==
    [][ /\ "max_workers" \in DOMAIN bot' =>
              /\ bot'.max_workers = (IF "future_workers" \in DOMAIN config_file.data
                                     THEN config_file.data["future_workers"] ELSE 15)
              /\ Cardinality(RunningInvocations') <= bot'.max_workers
        /\ \A i \in DOMAIN futures :
              /\ i \in DOMAIN futures'
              /\ futures'[i].state \in StateSuccessors(futures[i].state)
              /\ futures'[i].event = futures[i].event
              /\ futures'[i].plugin = futures[i].plugin
        /\ \A i \in DOMAIN futures' :
              futures'[i].thread = (IF futures'[i].state = "PENDING" THEN "none" ELSE "worker") ]_vars

\* every worker is busy running an invocation and another invocation waits
C9_Witness ==
    /\ "max_workers" \in DOMAIN bot
    /\ Cardinality(RunningInvocations) = bot.max_workers
    /\ \E i \in DOMAIN futures : futures[i].state = "PENDING"

StartupComplete ==
    /\ Len(argv) >= 1
    /\ config_file.readable
    /\ "token" \in DOMAIN config_file.data
    /\ "connected" \in DOMAIN bot /\ bot.connected
    /\ plugin_dir.kind = "dir"
    /\ classes = <<>>
    /\ Len(LoadEntries) = Len(plugin_dir.classes)
    /\ \E k \in DOMAIN log : log[k].msg = "Loaded plugins"

\* C10: the loop is entered, and anything is polled or submitted, only after the
\* argument, token, connection and plugin-directory checks passed and load_plugins
\* finished; a failed check leads to exit at once, where nothing is polled,
\* constructed or submitted and from where nothing continues; and once the loop has
\* started the plugin collection is never added to.
C10_PollOnlyAfterStartup ==
    [][ /\ (pc' \in RunPcs \/ polls' > 0 \/ futures' # <<>>) => StartupComplete'
        /\ pc' \in {"rtm_connect", "plugin_directory", "load_plugins"}
              => (Len(argv) >= 1 /\ config_file.readable /\ "token" \in DOMAIN config_file.data)
        /\ pc' \in {"plugin_directory", "load_plugins"} => bot'.connected
        /\ pc' = "load_plugins" => plugin_dir.kind = "dir"
        /\ pc' = "exit" =>
              (polls' = 0 /\ futures' = <<>> /\ plugins' = <<>> /\ log'[Len(log')].level = "fatal")
        /\ pc = "exit" => pc' = "exit"
        /\ pc \in RunPcs => (plugins' = plugins /\ LoadEntries' = LoadEntries) ]_vars

\* the loop has polled and submitted work with the plugins loaded at start-up
C10_Witness ==
    /\ polls >= 1
    /\ Len(plugins) = 3
    /\ futures # <<>>

\* the invocations submitted so far, as (event, plugin position) pairs in the
\* order of submission
Submitted == [i \in DOMAIN futures |-> <<futures[i].event, futures[i].plugin>>]
\* the invocations process_event still has to submit for its event
FrameDue ==
    IF pc \in {"process_event", "add_future_callback"}
    THEN [n \in DOMAIN frame.todo |-> <<frame.event, frame.todo[n]>>]
    ELSE <<>>
\* the step in which rtm_read returns a batch
ReadStep == pc = "rtm_read" /\ pc' = "for_event"
Range(seq) == {seq[n] : n \in DOMAIN seq}

\* the positions of a batch and of a plugin collection that are to be invoked together
Decisions(b, ps) ==
    {d \in (DOMAIN b) \X (DOMAIN ps) :
        /\ ~BotOrHidden(b[d[1]])
        /\ ps[d[2]].event_type = b[d[1]]["type"]}
\* the same, as a set of (event, plugin position) pairs
DispatchDecisions(b, ps) == {<<b[d[1]], d[2]>> : d \in Decisions(b, ps)}

\* C11: the invocations a batch leads to are those given by a function of the
\* batch and the plugin collection alone.  From the step after rtm_read has
\* returned a batch to the end of the batch, the (event, plugin) pairs submitted so
\* far together with the pairs that function gives for the events not yet visited
\* stay the same set, and their number the same number, through every step of the
\* loop and of the workers: whatever the pool size, the states of the invocations
\* and the batches before, the loop submits for the batch what the function gives
\* for it, no more and no less.
C11_DispatchDeterministic ==
    [][ (pc \in RunPcs /\ ~ReadStep) =>
          /\ Range(Submitted') \cup Range(FrameDue') \cup DispatchDecisions(events', plugins')
               = Range(Submitted) \cup Range(FrameDue) \cup DispatchDecisions(events, plugins)
          /\ Len(Submitted') + Len(FrameDue') + Cardinality(Decisions(events', plugins'))
               = Len(Submitted) + Len(FrameDue) + Cardinality(Decisions(events, plugins)) ]_vars

\* the first event of a full batch of the second poll has been submitted to a
\* plugin whose invocation for the same event, from the first poll, has not finished
C11_Witness ==
    /\ pc = "add_future_callback"
    /\ polls = 2
    /\ Len(events) = MaxBatch - 1
    /\ frame.future = 2
    /\ futures[1].state # "FINISHED"
    /\ futures[2].plugin = futures[1].plugin
    /\ futures[2].event = futures[1].event

\* C12: the completion check of an invocation is never run by the main (poll loop)
\* thread, and no message the error path posts is posted by it, also when the
\* invocation has finished before add_done_callback is called.
C12_CheckOffPollLoop ==
    \A i \in DOMAIN futures :
        /\ futures[i].callback_thread # "main"
        /\ \A k \in DOMAIN posted[i] :
              posted[i][k].by = "post_error_response" => posted[i][k].thread # "main"

\* the step is the return (or raise) of invocation j, or the run of its completion check
OwnFinish(j) == futures[j].state = "RUNNING" /\ futures'[j].state = "FINISHED"
OwnCallback(j) == futures[j].callback # "ran" /\ futures'[j].callback = "ran"
\* the message the error path posts in this step for invocation i
NewReport(i) == posted'[i][Len(posted'[i])]

\* C13: the two arguments of an invocation, its response draft and its event, are
\* dicts no other invocation holds, and the event argument is not the loop's own
\* event but a copy with the same items; the draft and the event copy of an
\* invocation change only in the step in which that invocation returns or raises
\* or in which its own completion check runs; and the report the error path posts
\* for an invocation is that invocation's draft with the attachment added, titled
\* with that invocation's plugin, posted to that invocation only.
C13_NoSharedState ==
    [][ /\ \A i, j \in DOMAIN futures' :
              i # j => /\ futures'[i].response_id # futures'[j].response_id
                       /\ futures'[i].event_arg.id # futures'[j].event_arg.id
        /\ \A i \in DOMAIN futures' :
              /\ futures'[i].event_arg.id.site # "rtm_read"
              /\ i \notin DOMAIN futures => futures'[i].event_arg.value = frame.event
        /\ \A j \in DOMAIN futures :
              (futures'[j].response # futures[j].response
                 \/ futures'[j].event_arg # futures[j].event_arg)
                 => (OwnFinish(j) \/ OwnCallback(j))
        /\ \A i \in DOMAIN futures :
              (OwnCallback(i) /\ futures[i].exception.type = "PluginException")
                 => /\ Len(posted'[i]) = Len(posted[i]) + 1
                    /\ NewReport(i).args
                          = Update(futures[i].response,
                                   [attachments |-> json_dumps(<<
                                       [title |-> <<"Error with plugin '",
                                                    plugins[futures[i].plugin].class, "'">>,
                                        text |-> futures[i].exception.message,
                                        mrkdwn_in |-> <<"text">>,
                                        color |-> "danger",
                                        fallback |-> futures[i].exception.message]>>)])
                    /\ futures'[i].response = NewReport(i).args
                    /\ \A j \in DOMAIN futures : j # i => posted'[j] = posted[j] ]_vars

\* two plugins were invoked for one event: one has set keys in its draft and in its
\* event copy, the other has raised and has had its error reported, and its event
\* copy and its report show none of the keys the first one set
C13_Witness ==
    \E i, j \in DOMAIN futures :
        /\ i # j
        /\ futures[i].event = futures[j].event
        /\ "handled" \in DOMAIN futures[i].event_arg.value
        /\ "text" \in DOMAIN futures[i].response
        /\ futures[j].exception.type = "PluginException"
        /\ futures[j].callback = "ran"
        /\ Len(posted[j]) = 1
        /\ "text" \notin DOMAIN posted[j][1].args
        /\ futures[j].event_arg.value = futures[j].event

\* the keys a draft has when it is handed to the pool
DraftKeys(event) ==
    {"username", "icon_emoji"} \cup (IF "channel" \in DOMAIN event THEN {"channel"} ELSE {})

\* C14: until the plugin runs, the draft of an invocation has exactly the keys
\* username and icon_emoji, with the bot's values, and the key channel exactly when
\* the event has one, with the event's value; and process_event can always submit
\* the next matching plugin, whether the event has a channel or not.
C14_DraftAtSubmission ==
    /\ \A i \in DOMAIN futures :
          futures[i].state = "PENDING" =>
              LET event == futures[i].event
                  draft == futures[i].response
              IN /\ DOMAIN draft = DraftKeys(event)
                 /\ draft["username"] = bot.username
                 /\ draft["icon_emoji"] = bot.icon_emoji
                 /\ "channel" \in DOMAIN event => draft["channel"] = event["channel"]
    /\ (pc = "process_event" /\ frame.todo # <<>>) => ENABLED process_event_submit

\* an event without a channel has been submitted to both message plugins, with
\* drafts of two keys, and process_event has returned
C14_Witness ==
    /\ pc = "for_event"
    /\ Len(futures) = 2
    /\ \A i \in DOMAIN futures :
          /\ futures[i].state = "PENDING"
          /\ "channel" \notin DOMAIN futures[i].event
          /\ DOMAIN futures[i].response = {"username", "icon_emoji"}

\* the loaded command plugins one of whose triggers is exactly t
CommandHolders(t) ==
    {j \in DOMAIN plugins :
        /\ plugins[j].kind = "CommandPlugin"
        /\ \E n \in DOMAIN plugins[j].triggers : plugins[j].triggers[n] = t}

\* C20: a call get_command(t) returns nothing exactly when no loaded command plugin
\* has a trigger equal to t; otherwise it returns a command plugin that has one,
\* the first such plugin of the collection; what it returns is never a plugin of
\* another kind; and the call leaves the collection as it is.
C20_GetCommandFirstMatch ==
    [][ lookup' # lookup =>
          LET t == lookup'.trigger
              k == lookup'.returned
          IN /\ k = 0 <=> CommandHolders(t) = {}
             /\ k # 0 => /\ k \in CommandHolders(t)
                          /\ \A j \in CommandHolders(t) : k <= j
                          /\ plugins[k].kind = "CommandPlugin"
             /\ plugins' = plugins ]_vars

\* "uptime" was looked up in a collection whose first plugin has the trigger but is
\* no command plugin and whose second and third are command plugins that have it:
\* the second was returned
C20_Witness ==
    /\ pc = "rtm_read"
    /\ Len(plugins) = 3
    /\ plugins[1].kind = "Plugin" /\ plugins[1].triggers = << <<"u","p","t","i","m","e">> >>
    /\ CommandHolders(<<"u","p","t","i","m","e">>) = {2, 3}
    /\ lookup = [trigger |-> <<"u","p","t","i","m","e">>, returned |-> 2]

\* C15: from the moment load_plugins has returned, no step of the main loop, of a
\* worker running a plugin (also when the plugin calls get_command) or of a
\* completion check changes the plugin collection: same length, same instances at
\* the same positions; every invocation is for an instance of the collection, the
\* one constructed at load time at that position, and what get_command returns is
\* one of them.
C15_PluginsFrozen ==
    [][ /\ pc \in RunPcs => pc' \in RunPcs
        /\ pc \in RunPcs =>
              /\ Len(plugins') = Len(plugins)
              /\ \A k \in DOMAIN plugins :
                    plugins'[k] = plugins[k] /\ plugins'[k].instance = k
              /\ \A i \in DOMAIN futures' : futures'[i].plugin \in DOMAIN plugins
              /\ \A i \in DOMAIN futures : futures'[i].plugin = futures[i].plugin
              /\ (lookup'.returned = ReturnsNone \/ lookup'.returned \in DOMAIN plugins) ]_vars

\* after two polls the collection is as loaded, while invocations have run, a
\* plugin has called get_command and got a plugin, and an error has been reported
C15_Witness ==
    /\ polls = 2
    /\ pc = "for_event"
    /\ Len(plugins) = 3
    /\ lookup.returned # 0
    /\ \E i \in DOMAIN futures : futures[i].callback = "ran" /\ Len(posted[i]) = 1
    /\ \A i \in DOMAIN futures : futures[i].state = "FINISHED"

RECURSIVE DispatchOrder(_, _)
\* the invocations a batch is to lead to, in order: event after event, and for one
\* event the plugins of its type by position
DispatchOrder(b, ps) ==
    IF b = <<>> THEN <<>>
    ELSE LET event == Head(b)
             positions == SelectSeq([k \in DOMAIN ps |-> k],
                                    LAMBDA k : ps[k].event_type = event["type"])
         IN (IF BotOrHidden(event) THEN <<>>
             ELSE [n \in DOMAIN positions |-> <<event, positions[n]>>])
            \o DispatchOrder(Tail(b), ps)

Succeeded(f) == f.state = "FINISHED" /\ f.exception.type = "None"

\* C17: the completion check of an invocation that returned without raising posts
\* nothing, logs nothing and leaves the draft and the event copy of the invocation
\* as the plugin left them; such an invocation never has a message from the error
\* path nor an error log entry, so every message posted for it was posted by the
\* plugin.
C17_SuccessIsSilent ==
    [][ /\ \A i \in DOMAIN futures :
              (OwnCallback(i) /\ Succeeded(futures[i]))
                 => /\ posted' = posted
                    /\ log' = log
                    /\ futures'[i].response = futures[i].response
                    /\ futures'[i].event_arg = futures[i].event_arg
                    /\ futures'[i].exception = futures[i].exception
        /\ \A i \in DOMAIN futures' :
              Succeeded(futures'[i])
                 => /\ \A k \in DOMAIN posted'[i] : posted'[i][k].by = "plugin"
                    /\ \A k \in DOMAIN log' :
                          "future" \in DOMAIN log'[k] => log'[k]["future"] # i ]_vars

\* two invocations returned without raising and were checked, one by a worker and
\* one by the main thread; one had posted its reply, the other nothing
C17_Witness ==
    \E i, j \in DOMAIN futures :
        /\ Succeeded(futures[i]) /\ Succeeded(futures[j])
        /\ futures[i].callback = "ran" /\ futures[j].callback = "ran"
        /\ futures[i].callback_thread = "worker" /\ futures[j].callback_thread = "main"
        /\ Len(posted[i]) = 1 /\ posted[i][1].by = "plugin"
        /\ posted[j] = <<>>

\* C19: with the main thread and the workers scheduled fairly and every started
\* reaction returning or raising, every submitted invocation is eventually taken by
\* a worker, and post_error_response is eventually called with its future; it is
\* never called a second time and a call is never undone, whether the future
\* finished before the callback was added (the main thread makes the call) or
\* after (a worker does).
C19_CheckedExactlyOnce ==
    /\ [][ \A i \in DOMAIN futures' :
              /\ futures'[i].checks <= 1
              /\ futures'[i].checks = (IF futures'[i].callback = "ran" THEN 1 ELSE 0)
              /\ i \in DOMAIN futures => futures'[i].checks >= futures[i].checks ]_vars
    /\ \A i \in 1..MaxFutures :
          (Len(futures) >= i) ~> (Len(futures) >= i /\ futures[i].state # "PENDING")
    /\ \A i \in 1..MaxFutures :
          (Len(futures) >= i) ~> (Len(futures) >= i /\ futures[i].checks = 1)

\* both orders have happened: one invocation was checked once by the main thread,
\* having finished before the callback was added, and one once by a worker
C19_Witness ==
    \E i, j \in DOMAIN futures :
        /\ futures[i].checks = 1 /\ futures[i].callback_thread = "main"
        /\ futures[j].checks = 1 /\ futures[j].callback_thread = "worker"

\* the invocations that never return: the running calls of a plugin whose call
\* cannot end
Hung(fs) == {i \in DOMAIN fs : fs[i].state = "RUNNING" /\ plugins[fs[i].plugin].reactions = {}}

\* what a step leaves of the invocations that never return
HungStays ==
    /\ Hung(futures) \subseteq Hung(futures')
    /\ \A i \in Hung(futures) :
          /\ futures'[i].state = "RUNNING" /\ futures'[i].exception = futures[i].exception
          /\ Busy(futures'[i]) /\ futures'[i].thread = "worker"
          /\ futures'[i].checks = 0 /\ posted'[i] = posted[i]
    /\ Cardinality(Hung(futures')) <= BusyWorkers'
    /\ BusyWorkers' <= bot.max_workers

\* C18: an invocation that never returns stays RUNNING on its worker in every later
\* state (it is not cancelled, not finished by a timeout, not checked), it counts
\* as one busy worker, and the busy workers never exceed the pool's size.  The loop
\* reaches its next poll whatever hangs, and a submitted invocation is eventually
\* taken by a worker unless the invocations hung by then fill the pool.
C18_HungHoldsOneWorker ==
    /\ [][ (pc \in RunPcs) => HungStays ]_vars
    /\ \A n \in 0..(MaxPolls - 1) :
          (pc \in RunPcs /\ polls = n) ~> (polls = n + 1)
    /\ \A i \in 1..MaxFutures :
          (Len(futures) >= i)
             ~> (Len(futures) >= i /\ (\/ futures[i].state # "PENDING"
                                       \/ Cardinality(Hung(futures)) >= bot.max_workers))

\* one invocation hangs in a pool with room left: the loop has polled again since,
\* and the invocation submitted with the hung one has run and was checked
C18_Witness ==
    /\ pc \in RunPcs /\ polls = MaxPolls
    /\ \E i, j \in DOMAIN futures :
        /\ i \in Hung(futures) /\ futures[i].callback = "attached"
        /\ Cardinality(Hung(futures)) < bot.max_workers
        /\ j > i /\ futures[j].state = "FINISHED" /\ futures[j].checks = 1
====
